---- MODULE Spec2Model ----
(***************************************************************************)
(* Rental Yield Calculator (src/app2.py): a Streamlit script that is run   *)
(* top to bottom once per user interaction.  The state is the memoised     *)
(* datasets, the widget values kept between reruns, and what the last run  *)
(* of the script computed and displayed.                                   *)
(*                                                                         *)
(* Conventions of the model                                                *)
(*  - a string is a tuple of one-character strings, so that str.strip()    *)
(*    and sorted() are computed and not assumed;                           *)
(*  - a timestamp is a day number; a CSV date is <<month, day>> and        *)
(*    pd.to_datetime converts it; every month has DaysPerMonth days;       *)
(*  - a float is an exact fraction [n, d] (d > 0), or +inf, or NaN, as     *)
(*    numpy produces them for x/0 and 0/0;                                 *)
(*  - groupby.mean is that of pandas 1.x, which the comparison loop is     *)
(*    written against: numeric columns only, group keys sorted;            *)
(*  - the two downloads succeed, and one browser session drives the app.   *)
(***************************************************************************)
EXTENDS Integers, Sequences, FiniteSets, TLC

VARIABLES
    remote_sales,       \* rows of Sales.csv in the remote dataset repository
    remote_rentals,     \* rows of Rentals.csv
    cache_sales,        \* st.cache_data entry of load_sales_data (<<>>: no entry, <<df>>: the value)
    cache_rentals,      \* st.cache_data entry of load_rental_data
    sales_fetches,      \* calls of hf_hub_download + read_csv for Sales.csv
    rental_fetches,     \* calls of hf_hub_download + read_csv for Rentals.csv
    months_back,        \* st.select_slider 'Time Period'
    area_choice,        \* st.selectbox 'Select Area / Project:'
    type_choice,        \* st.selectbox 'Property Type:'  (the option, before .strip())
    rooms_choice,       \* st.selectbox 'Rooms:'          (the option, before .strip())
    selected_comparison_areas,  \* st.multiselect 'Select Area(s)/Project(s):'
    pc,                 \* where the last run of the script ended
    filtered_sales_data,    \* line 100, as of the last run that reached it
    filtered_rental_data,   \* line 107
    panel,              \* the main panel: "none", "no_data", "metrics", "exception"
    metrics,            \* the three metric displays (<<>> when not shown)
    comp_trace,         \* the locals of each iteration of the comparison loop
    comparison_data,    \* the long-form table (line 178/215)
    comparison_chart_data   \* the pivot (line 218)

vars == <<remote_sales, remote_rentals, cache_sales, cache_rentals, sales_fetches,
          rental_fetches, months_back, area_choice, type_choice, rooms_choice,
          selected_comparison_areas, pc, filtered_sales_data, filtered_rental_data,
          panel, metrics, comp_trace, comparison_data, comparison_chart_data>>

----------------------------------------------------------------------------
(* Bounds of the model *)

MaxSales == 2
MaxRentals == 1
MaxAreas == 2
DaysPerMonth == 2

----------------------------------------------------------------------------
(* Strings *)

\* 'Business Bay', the area the selectors default to
BusinessBay == <<"B">>
Marina == <<"M">>
Flat == <<"F">>
Villa == <<"V">>
Studio == <<"S">>

CharRank(c) == CASE c = " " -> 0 [] c = "B" -> 1 [] c = "F" -> 2
                 [] c = "M" -> 3 [] c = "S" -> 4 [] c = "V" -> 5 [] OTHER -> 6

RECURSIVE lstrip(_)
lstrip(s) == IF s # <<>> /\ Head(s) = " " THEN lstrip(Tail(s)) ELSE s

RECURSIVE rstrip(_)
rstrip(s) == IF s # <<>> /\ s[Len(s)] = " " THEN rstrip(SubSeq(s, 1, Len(s) - 1)) ELSE s

strip(s) == rstrip(lstrip(s))

\* Python's < on str: lexicographic by code point
RECURSIVE StrLess(_, _)
StrLess(a, b) ==
    IF b = <<>> THEN FALSE
    ELSE IF a = <<>> THEN TRUE
    ELSE IF Head(a) = Head(b) THEN StrLess(Tail(a), Tail(b))
    ELSE CharRank(Head(a)) < CharRank(Head(b))

\* Series.unique(): the distinct values in order of first appearance
RECURSIVE unique(_)
unique(xs) ==
    IF xs = <<>> THEN <<>>
    ELSE LET init == unique(SubSeq(xs, 1, Len(xs) - 1))
             x == xs[Len(xs)]
         IN IF \E i \in 1..Len(init) : init[i] = x THEN init ELSE Append(init, x)

RECURSIVE InsertStr(_, _)
InsertStr(x, xs) ==
    IF xs = <<>> THEN <<x>>
    ELSE IF StrLess(x, Head(xs)) THEN <<x>> \o xs
    ELSE <<Head(xs)>> \o InsertStr(x, Tail(xs))

\* Python's sorted() on a list of str
RECURSIVE sorted(_)
sorted(xs) == IF xs = <<>> THEN <<>> ELSE InsertStr(Head(xs), sorted(Tail(xs)))

Column(df, f) == [i \in 1..Len(df) |-> df[i][f]]

----------------------------------------------------------------------------
(* Dates *)

\* pd.to_datetime on a CSV date <<month, day>>: the timestamp, a day number
to_datetime(d) == d[1] * DaysPerMonth + d[2]

\* .dt.to_period("M"): the calendar month of a timestamp
to_period_M(t) == t \div DaysPerMonth

\* the options of the 'Time Period' slider
time_periods == <<1, 3, 6, 12, 24, 36, 60>>

\* pd.Timestamp.today(); the reruns of one session happen at one instant
current_date == (time_periods[Len(time_periods)] + 1) * DaysPerMonth

\* current_date - pd.DateOffset(months=months_back)
MinDate(mb) == current_date - mb * DaysPerMonth

----------------------------------------------------------------------------
(* The remote datasets: the rows the CSV files may hold *)

ThisMonth == <<time_periods[Len(time_periods)], 1>>       \* inside every window
MonthAgo == <<time_periods[Len(time_periods)], 0>>        \* exactly current_date - 1 month
Earlier == <<time_periods[Len(time_periods)] - 1, 1>>     \* outside the 1-month window

SaleRow(d, a, t, r, p) ==
    [instance_date |-> d, master_project_en |-> a, property_sub_type_en |-> t,
     rooms_en |-> r, actual_worth |-> p]

RentalRow(d, a, t, r, p) ==
    [contract_start_date |-> d, master_project_en |-> a, ejari_property_type_en |-> t,
     ejari_property_sub_type_id |-> r, annual_amount |-> p]

SalesPool ==
    { SaleRow(ThisMonth, BusinessBay, Flat, Studio, 100),
      SaleRow(MonthAgo, BusinessBay, Flat, Studio, 200),
      SaleRow(Earlier, BusinessBay, Flat, Studio, 300),
      SaleRow(Earlier, <<" ">> \o Marina, Flat \o <<" ">>, Studio, 0),
      SaleRow(ThisMonth, Marina, Villa, Studio \o <<" ">>, 100) }

RentalsPool ==
    { RentalRow(ThisMonth, BusinessBay, Flat, Studio, 10),
      RentalRow(Earlier, <<" ">> \o Marina, Flat \o <<" ">>, <<" ">> \o Studio, 20) }

SeqsUpTo(S, n) == UNION { [1..k -> S] : k \in 0..n }

----------------------------------------------------------------------------
(* Dataset Provider and Normalizer: load_sales_data, load_rental_data *)

\* lines 30-32: the date parsed, area and property type trimmed (rooms_en is not)
normalize_sales(csv) ==
    [i \in 1..Len(csv) |->
        [csv[i] EXCEPT !.instance_date = to_datetime(@),
                       !.master_project_en = strip(@),
                       !.property_sub_type_en = strip(@)]]

\* lines 53-56
normalize_rentals(csv) ==
    [i \in 1..Len(csv) |->
        [csv[i] EXCEPT !.contract_start_date = to_datetime(@),
                       !.master_project_en = strip(@),
                       !.ejari_property_type_en = strip(@),
                       !.ejari_property_sub_type_id = strip(@)]]

\* a load without the memoisation: the body runs on every call
load_sales_data_uncached(cache, remote) ==
    [df |-> normalize_sales(remote), cache |-> <<normalize_sales(remote)>>, fetched |-> 1]

\* @st.cache_data(): the body runs when the cache holds no entry, and its value
\* is stored; otherwise the stored value is returned.
\* [df: the value returned, cache: the cache afterwards, fetched: 1 if the body ran]
load_sales_data(cache, remote) ==
    IF cache = <<>>
    THEN [df |-> normalize_sales(remote), cache |-> <<normalize_sales(remote)>>, fetched |-> 1]
    ELSE [df |-> cache[1], cache |-> cache, fetched |-> 0]

load_rental_data(cache, remote) ==
    IF cache = <<>>
    THEN [df |-> normalize_rentals(remote), cache |-> <<normalize_rentals(remote)>>, fetched |-> 1]
    ELSE [df |-> cache[1], cache |-> cache, fetched |-> 0]

----------------------------------------------------------------------------
(* Filter Engine: boolean-mask indexing *)

EqMask(col, v) == [i \in 1..Len(col) |-> col[i] = v]

\* a filter that leaves out the rows dated exactly min_date
DateMaskStrict(col, min_date) == [i \in 1..Len(col) |-> col[i] > min_date]

\* lines 104, 111, 185, 192: the date is at or after min_date
DateMask(col, min_date) == [i \in 1..Len(col) |-> col[i] >= min_date]

AndMask(m1, m2) == [i \in 1..Len(m1) |-> m1[i] /\ m2[i]]

\* df[mask]: the rows whose mask entry is True, in order
RECURSIVE BoolIndex(_, _)
BoolIndex(df, mask) ==
    IF df = <<>> THEN <<>>
    ELSE (IF Head(mask) THEN <<Head(df)>> ELSE <<>>) \o BoolIndex(Tail(df), Tail(mask))

\* lines 100-105 and 181-186
filter_sales(sales_data, area, property_type, rooms, min_date) ==
    BoolIndex(sales_data,
        AndMask(AndMask(AndMask(
            EqMask(Column(sales_data, "master_project_en"), area),
            EqMask(Column(sales_data, "property_sub_type_en"), property_type)),
            EqMask(Column(sales_data, "rooms_en"), rooms)),
            DateMask(Column(sales_data, "instance_date"), min_date)))

\* lines 107-112 and 188-193
filter_rentals(rental_data, area, property_type, rooms, min_date) ==
    BoolIndex(rental_data,
        AndMask(AndMask(AndMask(
            EqMask(Column(rental_data, "master_project_en"), area),
            EqMask(Column(rental_data, "ejari_property_type_en"), property_type)),
            EqMask(Column(rental_data, "ejari_property_sub_type_id"), rooms)),
            DateMask(Column(rental_data, "contract_start_date"), min_date)))

----------------------------------------------------------------------------
(* Floats *)

Num(n, d) == [k |-> "num", n |-> n, d |-> d]
Inf == [k |-> "inf", n |-> 0, d |-> 0]
NaN == [k |-> "nan", n |-> 0, d |-> 0]

\* the int literal 0 of lines 124, 130, 135, 200, 205, 210
Zero == Num(0, 1)

\* x > 0 (False for NaN); prices are never negative
Positive(x) == x.k = "inf" \/ (x.k = "num" /\ x.n > 0)

\* a / b on numpy floats: x/0 is inf, 0/0 is NaN, no exception
TrueDiv(a, b) ==
    IF a.k = "nan" \/ b.k = "nan" THEN NaN
    ELSE IF a.k = "inf" THEN (IF b.k = "inf" THEN NaN ELSE Inf)
    ELSE IF b.k = "inf" THEN Zero
    ELSE IF b.n = 0 THEN (IF a.n = 0 THEN NaN ELSE Inf)
    ELSE Num(a.n * b.d, a.d * b.n)

\* x * 100
Times100(x) == IF x.k = "num" THEN Num(x.n * 100, x.d) ELSE x

AddF(a, b) ==
    IF a.k = "nan" \/ b.k = "nan" THEN NaN
    ELSE IF a.k = "inf" \/ b.k = "inf" THEN Inf
    ELSE Num(a.n * b.d + b.n * a.d, a.d * b.d)

RECURSIVE SumInts(_)
SumInts(col) == IF col = <<>> THEN 0 ELSE Head(col) + SumInts(Tail(col))

RECURSIVE SumF(_)
SumF(col) == IF col = <<>> THEN Zero ELSE AddF(Head(col), SumF(Tail(col)))

\* Series.mean() of a non-empty column of prices
mean(col) == Num(SumInts(col), Len(col))

\* Series.mean() of a non-empty column of floats (line 198)
meanF(col) == TrueDiv(SumF(col), Num(Len(col), 1))

----------------------------------------------------------------------------
(* Yield Calculator *)

\* lines 132-135 and 207-210
gross_rental_yield(avg_rent_price, avg_sale_price) ==
    IF Positive(avg_rent_price) /\ Positive(avg_sale_price)
    THEN Times100(TrueDiv(avg_rent_price, avg_sale_price))
    ELSE Zero

\* an emptiness test that asks for both tables to be empty
NoDataBoth(fs, fr) == fs = <<>> /\ fr = <<>>

\* line 114
NoData(fs, fr) == fs = <<>> \/ fr = <<>>

\* lines 114-171: what the main panel ends with.  Line 120 calls
\* Series.dt.to_timestamp() on a datetime64 column; the .dt accessor of such a
\* column (DatetimeProperties) has no to_timestamp, so whenever there is a sale the
\* statement raises AttributeError and the run of the script ends there.
MainPanel(fs, fr) ==
    IF NoData(fs, fr)
    THEN [pc |-> "done", panel |-> "no_data", metrics |-> <<>>]
    ELSE LET num_sales_records == Len(fs)
             num_rental_records == Len(fr)
         IN IF num_sales_records > 0
            THEN \* lines 119-120
                 [pc |-> "error_120", panel |-> "exception", metrics |-> <<>>]
            ELSE LET avg_sale_price == Zero     \* line 124
                     avg_rent_price == IF num_rental_records > 0
                                       THEN mean(Column(fr, "annual_amount")) ELSE Zero
                 IN [pc |-> "done", panel |-> "metrics",
                     metrics |-> << [gross_rental_yield |->
                                         gross_rental_yield(avg_rent_price, avg_sale_price),
                                     avg_sale_price |-> avg_sale_price,
                                     avg_rent_price |-> avg_rent_price,
                                     num_sales_records |-> num_sales_records,
                                     num_rental_records |-> num_rental_records] >>]

----------------------------------------------------------------------------
(* Monthly Aggregator *)

\* the groups of a groupby, kept sorted by key: <<[key, sum, count], ...>>
RECURSIVE AddToGroups(_, _, _)
AddToGroups(groups, key, val) ==
    IF groups = <<>> THEN << [key |-> key, sum |-> val, count |-> 1] >>
    ELSE IF Head(groups).key = key
         THEN << [Head(groups) EXCEPT !.sum = @ + val, !.count = @ + 1] >> \o Tail(groups)
    ELSE IF key < Head(groups).key
         THEN << [key |-> key, sum |-> val, count |-> 1] >> \o groups
    ELSE << Head(groups) >> \o AddToGroups(Tail(groups), key, val)

RECURSIVE GroupByMonth(_)
GroupByMonth(df) ==
    IF df = <<>> THEN <<>>
    ELSE LET row == df[Len(df)]
         IN AddToGroups(GroupByMonth(SubSeq(df, 1, Len(df) - 1)),
                        to_period_M(row.instance_date), row.actual_worth)

\* Period.to_timestamp(): the first instant of the month
to_timestamp(m) == m * DaysPerMonth

\* an aggregation that sums the prices of a month
aggregate_monthly_sum(df) ==
    LET g == GroupByMonth(df)
    IN [i \in 1..Len(g) |->
            [instance_date |-> to_timestamp(g[i].key), actual_worth |-> Num(g[i].sum, 1)]]

\* an aggregation that keeps one row per sale
aggregate_monthly_per_sale(df) ==
    [i \in 1..Len(df) |->
        [instance_date |-> to_timestamp(to_period_M(df[i].instance_date)),
         actual_worth |-> Num(df[i].actual_worth, 1)]]

\* lines 196-197: groupby(month).mean().reset_index(), the month as a timestamp.
\* The mean is that of the numeric columns, as pandas 1.x computes it (from 2.0 on
\* mean() raises TypeError on the string columns and the loop would end here).
aggregate_monthly(df) ==
    LET g == GroupByMonth(df)
    IN [i \in 1..Len(g) |->
            [instance_date |-> to_timestamp(g[i].key),
             actual_worth |-> Num(g[i].sum, g[i].count)]]

----------------------------------------------------------------------------
(* Comparison Builder *)

\* line 213: scalar / Series * 100, elementwise
YieldColumn(comp_avg_rent_price, worth) ==
    [i \in 1..Len(worth) |-> Times100(TrueDiv(comp_avg_rent_price, worth[i]))]

\* lines 181-215: one iteration of the loop; rows is what it appends
CompIteration(sales_data, rental_data, comparison_area, property_type, rooms, min_date) ==
    LET sales == filter_sales(sales_data, comparison_area, property_type, rooms, min_date)
        rentals == filter_rentals(rental_data, comparison_area, property_type, rooms, min_date)
        comp_sales_data == IF sales # <<>> THEN aggregate_monthly(sales) ELSE <<>>
        comp_avg_sale_price ==
            IF sales # <<>> THEN meanF(Column(comp_sales_data, "actual_worth")) ELSE Zero
        comp_avg_rent_price ==
            IF rentals # <<>> THEN mean(Column(rentals, "annual_amount")) ELSE Zero
        yields == YieldColumn(comp_avg_rent_price, Column(comp_sales_data, "actual_worth"))
    IN [comparison_area |-> comparison_area,
        sales |-> sales,
        rentals |-> rentals,
        comp_sales_data |-> comp_sales_data,
        comp_avg_rent_price |-> comp_avg_rent_price,
        comp_gross_rental_yield |-> gross_rental_yield(comp_avg_rent_price, comp_avg_sale_price),
        rows |-> IF sales # <<>>
                 THEN [i \in 1..Len(comp_sales_data) |->
                          [instance_date |-> comp_sales_data[i].instance_date,
                           yield |-> yields[i],
                           Area |-> comparison_area]]
                 ELSE <<>>]

\* lines 180-215: the iterations, in list order
CompLoop(sales_data, rental_data, areas, property_type, rooms, min_date) ==
    [i \in 1..Len(areas) |->
        CompIteration(sales_data, rental_data, areas[i], property_type, rooms, min_date)]

\* pd.concat of what the iterations appended (lines 178, 215)
RECURSIVE ConcatRows(_)
ConcatRows(trace) ==
    IF trace = <<>> THEN <<>>
    ELSE ConcatRows(SubSeq(trace, 1, Len(trace) - 1)) \o trace[Len(trace)].rows

RECURSIVE InsertInt(_, _)
InsertInt(x, xs) ==
    IF xs = <<>> THEN <<x>>
    ELSE IF x < Head(xs) THEN <<x>> \o xs
    ELSE <<Head(xs)>> \o InsertInt(x, Tail(xs))

RECURSIVE SortInts(_)
SortInts(xs) == IF xs = <<>> THEN <<>> ELSE InsertInt(Head(xs), SortInts(Tail(xs)))

NoChart == [status |-> "none", index |-> <<>>, columns |-> <<>>, cells |-> <<>>]

\* the value of the pivot at (month, area): the row's value, NaN where there is none
PivotCell(long, month, area) ==
    IF \E i \in 1..Len(long) : long[i].instance_date = month /\ long[i].Area = area
    THEN long[CHOOSE i \in 1..Len(long) :
                  long[i].instance_date = month /\ long[i].Area = area].yield
    ELSE NaN

\* a reshape that keeps one of the rows sharing (instance_date, Area) and never raises
pivot_keep_one(long) ==
    LET index == SortInts(unique(Column(long, "instance_date")))
        columns == sorted(unique(Column(long, "Area")))
    IN [status |-> "ok", index |-> index, columns |-> columns,
        cells |-> [i \in 1..Len(index) |->
                     [j \in 1..Len(columns) |-> PivotCell(long, index[i], columns[j])]]]

\* DataFrame.pivot(index='instance_date', columns='Area', values='Gross Rental Yield'):
\* ValueError ("Index contains duplicate entries, cannot reshape") when two rows
\* share (instance_date, Area); else the sorted months by the sorted areas
pivot(long) ==
    IF \E i, j \in 1..Len(long) :
          i < j /\ long[i].instance_date = long[j].instance_date /\ long[i].Area = long[j].Area
    THEN [status |-> "ValueError", index |-> <<>>, columns |-> <<>>, cells |-> <<>>]
    ELSE LET index == SortInts(unique(Column(long, "instance_date")))
             columns == sorted(unique(Column(long, "Area")))
         IN [status |-> "ok", index |-> index, columns |-> columns,
             cells |-> [i \in 1..Len(index) |->
                          [j \in 1..Len(columns) |-> PivotCell(long, index[i], columns[j])]]]

\* lines 217-219
Chart(long) == IF long # <<>> THEN pivot(long) ELSE NoChart

----------------------------------------------------------------------------
(* The script *)

Elems(xs) == { xs[i] : i \in 1..Len(xs) }

\* line 86 (the rows of the model hold no missing area, so dropna() drops nothing)
AreaOptions(sales_data) == sorted(unique(Column(sales_data, "master_project_en")))
\* line 90
PropertyTypeOptions(sales_data) == unique(Column(sales_data, "property_sub_type_en"))
\* line 93
RoomsOptions(sales_data) == sorted(unique(Column(sales_data, "rooms_en")))

\* the value of a widget: what the user chose, or its default on the first render
Value(choice, default) == IF choice = <<>> THEN default ELSE choice[1]

\* One run of the script, lines 60-223, with the widget values w.  A widget keeps
\* its value over the reruns; an exception ends the run where it is raised.
RunScript(w) ==
    /\ cache_sales' = load_sales_data(cache_sales, remote_sales).cache
    /\ cache_rentals' = load_rental_data(cache_rentals, remote_rentals).cache
    /\ sales_fetches' = sales_fetches + load_sales_data(cache_sales, remote_sales).fetched
    /\ rental_fetches' = rental_fetches + load_rental_data(cache_rentals, remote_rentals).fetched
    /\ months_back' = w.months_back
    /\ UNCHANGED <<remote_sales, remote_rentals>>
    /\ LET sales_data == load_sales_data(cache_sales, remote_sales).df
           rental_data == load_rental_data(cache_rentals, remote_rentals).df
       IN IF BusinessBay \notin Elems(AreaOptions(sales_data))
          THEN \* line 87: list.index raises ValueError
               /\ pc' = "error_87"
               /\ panel' = "exception"
               /\ area_choice' = <<>> /\ type_choice' = <<>> /\ rooms_choice' = <<>>
               /\ selected_comparison_areas' = <<>>
               /\ filtered_sales_data' = <<>> /\ filtered_rental_data' = <<>>
               /\ metrics' = <<>> /\ comp_trace' = <<>> /\ comparison_data' = <<>>
               /\ comparison_chart_data' = NoChart
          ELSE LET selected_area == Value(w.area_choice, BusinessBay)
                   type_option == Value(w.type_choice, PropertyTypeOptions(sales_data)[1])
                   rooms_option == Value(w.rooms_choice, RoomsOptions(sales_data)[1])
                   selected_property_type == strip(type_option)       \* line 91
                   selected_rooms == strip(rooms_option)              \* line 94
                   min_date == MinDate(w.months_back)
                   areas == Value(w.comparison, <<BusinessBay>>)      \* line 176
               IN /\ area_choice' = <<selected_area>>
                  /\ type_choice' = <<type_option>>
                  /\ rooms_choice' = <<rooms_option>>
                  /\ filtered_sales_data' =
                        filter_sales(sales_data, selected_area, selected_property_type,
                                     selected_rooms, min_date)
                  /\ filtered_rental_data' =
                        filter_rentals(rental_data, selected_area, selected_property_type,
                                       selected_rooms, min_date)
                  /\ LET main == MainPanel(filtered_sales_data', filtered_rental_data')
                     IN /\ panel' = main.panel
                        /\ metrics' = main.metrics
                        /\ IF main.pc # "done"
                           THEN \* the run ended in the main panel
                                /\ pc' = main.pc
                                /\ selected_comparison_areas' = w.comparison
                                /\ comp_trace' = <<>> /\ comparison_data' = <<>>
                                /\ comparison_chart_data' = NoChart
                           ELSE /\ selected_comparison_areas' = <<areas>>
                                /\ comp_trace' = CompLoop(sales_data, rental_data, areas,
                                                    selected_property_type, selected_rooms,
                                                    min_date)
                                /\ comparison_data' = ConcatRows(comp_trace')
                                /\ comparison_chart_data' = Chart(comparison_data')
                                \* line 218 raises, or the run reaches line 223
                                /\ pc' = IF comparison_chart_data'.status = "ValueError"
                                         THEN "error_218" ELSE "done"

\* the widget values as they stand
Widgets == [months_back |-> months_back, area_choice |-> area_choice,
            type_choice |-> type_choice, rooms_choice |-> rooms_choice,
            comparison |-> selected_comparison_areas]

\* the widgets a run has rendered, by where it ended
SelectorsRendered == pc \in {"error_120", "error_218", "done"}
MultiselectRendered == pc \in {"error_218", "done"}

\* the lists st.multiselect can return: options, each at most once, in the order chosen
DistinctLists(options) ==
    { l \in SeqsUpTo(Elems(options), Len(options)) :
        \A i, j \in 1..Len(l) : i # j => l[i] # l[j] }

----------------------------------------------------------------------------
(* Actions: the first run of a session, and one rerun per interaction *)

FirstRun ==
    /\ pc = "start"
    /\ RunScript(Widgets)

\* 'R' / "Rerun": the script again, nothing changed
Rerun ==
    /\ pc # "start"
    /\ RunScript(Widgets)

SelectTimePeriod(p) ==
    /\ pc # "start"
    /\ p # months_back
    /\ RunScript([Widgets EXCEPT !.months_back = p])

\* the options a selector offers, once a run has rendered it
Offered(rendered, options) == IF rendered THEN Elems(options) ELSE {}

SelectArea(a) ==
    RunScript([Widgets EXCEPT !.area_choice = <<a>>])

SelectPropertyType(t) ==
    RunScript([Widgets EXCEPT !.type_choice = <<t>>])

SelectRooms(r) ==
    RunScript([Widgets EXCEPT !.rooms_choice = <<r>>])

SelectComparisonAreas(l) ==
    RunScript([Widgets EXCEPT !.comparison = <<l>>])

\* the comparison section given any list of areas, repeats included
CompareAnyList(l) ==
    RunScript([Widgets EXCEPT !.comparison = <<l>>])

Init ==
    /\ remote_sales \in SeqsUpTo(SalesPool, MaxSales)
    /\ remote_rentals \in SeqsUpTo(RentalsPool, MaxRentals)
    /\ cache_sales = <<>> /\ cache_rentals = <<>>
    /\ sales_fetches = 0 /\ rental_fetches = 0
    /\ months_back = 12
    /\ area_choice = <<>> /\ type_choice = <<>> /\ rooms_choice = <<>>
    /\ selected_comparison_areas = <<>>
    /\ pc = "start"
    /\ filtered_sales_data = <<>> /\ filtered_rental_data = <<>>
    /\ panel = "none" /\ metrics = <<>>
    /\ comp_trace = <<>> /\ comparison_data = <<>>
    /\ comparison_chart_data = NoChart

Next ==
    \/ FirstRun
    \/ Rerun
    \/ \E i \in 1..Len(time_periods) : SelectTimePeriod(time_periods[i])
    \/ \E a \in Offered(SelectorsRendered, AreaOptions(cache_sales[1])) : SelectArea(a)
    \/ \E t \in Offered(SelectorsRendered, PropertyTypeOptions(cache_sales[1])) :
          SelectPropertyType(t)
    \/ \E r \in Offered(SelectorsRendered, RoomsOptions(cache_sales[1])) : SelectRooms(r)
    \/ \E l \in IF MultiselectRendered
                THEN DistinctLists(AreaOptions(cache_sales[1])) ELSE {} :
          SelectComparisonAreas(l)

Spec == Init /\ [][Next]_vars

\* the comparison section as a function of its list: the first run, a choice of
\* the area of the main panel, and any list of areas
NextAnyList ==
    \/ FirstRun
    \/ \E a \in Offered(SelectorsRendered, AreaOptions(cache_sales[1])) : SelectArea(a)
    \/ \E l \in IF MultiselectRendered
                THEN SeqsUpTo(Elems(AreaOptions(cache_sales[1])), MaxAreas) ELSE {} :
          CompareAnyList(l)

SpecAnyList == Init /\ [][NextAnyList]_vars

----------------------------------------------------------------------------
(* What the properties are stated in: the criteria of the last run, and the    *)
(* matching rows as sets of row numbers of the loaded datasets                 *)

\* the last run reached the filters of lines 100-112
FiltersRan == pc \in {"error_120", "error_218", "done"}
\* the last run went through the comparison loop
ComparisonRan == pc \in {"error_218", "done"}

TheSales == cache_sales[1]
TheRentals == cache_rentals[1]
TheArea == area_choice[1]
TheType == strip(type_choice[1])
TheRooms == strip(rooms_choice[1])
TheMinDate == MinDate(months_back)
TheAreas == selected_comparison_areas[1]

SaleMatches(i, area) ==
    /\ TheSales[i].master_project_en = area
    /\ TheSales[i].property_sub_type_en = TheType
    /\ TheSales[i].rooms_en = TheRooms
    /\ TheSales[i].instance_date >= TheMinDate

RentalMatches(i, area) ==
    /\ TheRentals[i].master_project_en = area
    /\ TheRentals[i].ejari_property_type_en = TheType
    /\ TheRentals[i].ejari_property_sub_type_id = TheRooms
    /\ TheRentals[i].contract_start_date >= TheMinDate

MatchingSales(area) == { i \in 1..Len(TheSales) : SaleMatches(i, area) }
MatchingRentals(area) == { i \in 1..Len(TheRentals) : RentalMatches(i, area) }

\* sub is df restricted to the row numbers in keep, in order
IsRestriction(sub, df, keep) ==
    /\ Len(sub) = Cardinality(keep)
    /\ \A k \in 1..Len(sub) : \E i \in keep :
          /\ sub[k] = df[i]
          /\ k = Cardinality({ j \in keep : j <= i })

\* C2: the filter returns exactly the rows of the dataset whose area, property
\* type and room category equal the criteria and whose date is at or after
\* min_date, and the empty table when there is none.
C2_FilterExact ==
    FiltersRan =>
        /\ IsRestriction(filtered_sales_data, TheSales, MatchingSales(TheArea))
        /\ IsRestriction(filtered_rental_data, TheRentals, MatchingRentals(TheArea))

\* a sale dated exactly min_date is returned while another row is left out
C2_Witness ==
    /\ FiltersRan
    /\ \E k \in 1..Len(filtered_sales_data) :
          filtered_sales_data[k].instance_date = TheMinDate
    /\ Len(filtered_sales_data) < Len(TheSales)

\* C3: when the filtered sales or the filtered rentals are empty the main panel
\* shows the "no data" message and no metric; the metrics are shown only when
\* both are non-empty.
C3_NoDataPanel ==
    FiltersRan =>
        /\ (filtered_sales_data = <<>> \/ filtered_rental_data = <<>>)
              => (panel = "no_data" /\ metrics = <<>>)
        /\ (panel = "metrics" \/ metrics # <<>>)
              => (filtered_sales_data # <<>> /\ filtered_rental_data # <<>>)

\* there are matching rentals and no matching sale, and the panel says "no data"
C3_Witness ==
    /\ FiltersRan
    /\ filtered_sales_data = <<>>
    /\ filtered_rental_data # <<>>
    /\ panel = "no_data"

\* the calendar months in which an area has a matching sale
SaleMonths(area) == { to_period_M(TheSales[i].instance_date) : i \in MatchingSales(area) }

RECURSIVE MonthsOverAreas(_)
MonthsOverAreas(areas) ==
    IF areas = <<>> THEN 0
    ELSE Cardinality(SaleMonths(Head(areas))) + MonthsOverAreas(Tail(areas))

RowsOf(area) == { k \in 1..Len(comparison_data) : comparison_data[k].Area = area }
Occurrences(area) == { i \in 1..Len(TheAreas) : TheAreas[i] = area }

\* C4: the long-form table has as many rows as the sum, over the areas of the
\* list, of the months in which the area has a matching sale; an area without a
\* matching sale has no row, and the other areas keep theirs.
C4_RowCount ==
    ComparisonRan =>
        /\ Len(comparison_data) = MonthsOverAreas(TheAreas)
        /\ \A i \in 1..Len(TheAreas) :
              Cardinality(RowsOf(TheAreas[i])) =
                  Cardinality(Occurrences(TheAreas[i])) * Cardinality(SaleMonths(TheAreas[i]))

\* two areas are compared, one without a matching sale, and the other has rows
C4_Witness ==
    /\ ComparisonRan
    /\ Len(TheAreas) = 2
    /\ \E i \in 1..2 : MatchingSales(TheAreas[i]) = {} /\ RowsOf(TheAreas[i]) = {}
    /\ comparison_data # <<>>

\* the sum of column f of df over the row numbers in S
RECURSIVE SumOver(_, _, _)
SumOver(S, df, f) ==
    IF S = {} THEN 0
    ELSE LET i == CHOOSE j \in S : TRUE
         IN df[i][f] + SumOver(S \ {i}, df, f)

InMonth(df, m) == { i \in 1..Len(df) : to_period_M(df[i].instance_date) = m }

\* C5: the monthly aggregation of a filtered sales table is in strictly ascending
\* order of month, has exactly one row per month present in the table, each with
\* the mean of the prices of that month's rows, and is empty for an empty table.
C5_MonthlyMeans ==
    ComparisonRan =>
        \A i \in 1..Len(comp_trace) :
            LET src == comp_trace[i].sales
                agg == comp_trace[i].comp_sales_data
            IN /\ \A k \in 1..Len(agg) - 1 :
                      agg[k].instance_date < agg[k + 1].instance_date
               /\ { to_period_M(agg[k].instance_date) : k \in 1..Len(agg) } =
                  { to_period_M(src[j].instance_date) : j \in 1..Len(src) }
               /\ \A k \in 1..Len(agg) :
                      LET rows == InMonth(src, to_period_M(agg[k].instance_date))
                      IN /\ agg[k].actual_worth.k = "num"
                         /\ agg[k].actual_worth.n * Cardinality(rows) =
                                SumOver(rows, src, "actual_worth") * agg[k].actual_worth.d
               /\ (src = <<>> => agg = <<>>)

\* two sales of different prices in one month are aggregated into one row
C5_Witness ==
    /\ ComparisonRan
    /\ \E i \in 1..Len(comp_trace) :
          /\ Len(comp_trace[i].sales) = 2
          /\ Len(comp_trace[i].comp_sales_data) = 1
          /\ comp_trace[i].sales[1].actual_worth # comp_trace[i].sales[2].actual_worth

\* C6: for each dataset the fetch and parse happen at most once, in the first
\* run; every later run gets the same content and fetches nothing.
C6_LoadOnce ==
    [][ /\ sales_fetches' <= 1
        /\ rental_fetches' <= 1
        /\ cache_sales' = << normalize_sales(remote_sales) >>
        /\ cache_rentals' = << normalize_rentals(remote_rentals) >>
        /\ pc # "start" =>
              /\ sales_fetches' = sales_fetches
              /\ rental_fetches' = rental_fetches
              /\ cache_sales' = cache_sales
              /\ cache_rentals' = cache_rentals ]_vars

\* the script has run again after an interaction, with one fetch of each dataset
C6_Witness ==
    /\ pc # "start"
    /\ months_back # 12
    /\ sales_fetches = 1
    /\ rental_fetches = 1

\* y is the yield of an area for a month: 100 * (mean rent of the area's matching
\* rentals, 0 without any) / (mean price of the area's matching sales of the
\* month), as a float: inf or NaN when that mean price is 0
YieldIs(y, area, month) ==
    LET sales == { i \in MatchingSales(area) :
                      to_period_M(TheSales[i].instance_date) = month }
        price_sum == SumOver(sales, TheSales, "actual_worth")
        rentals == MatchingRentals(area)
        rent_sum == SumOver(rentals, TheRentals, "annual_amount")
        rent_count == IF rentals = {} THEN 1 ELSE Cardinality(rentals)
    IN IF price_sum = 0
       THEN y.k = IF rent_sum = 0 THEN "nan" ELSE "inf"
       ELSE /\ y.k = "num"
            /\ y.n * (rent_count * price_sum) = 100 * rent_sum * Cardinality(sales) * y.d

\* the first row of the i-th occurrence in the long-form table, minus one
Offset(i) == MonthsOverAreas(SubSeq(TheAreas, 1, i - 1))

\* every occurrence of an area in the list appends, in list order, its own rows:
\* one per month with a matching sale, months ascending, with the area's yield
RowsAppendedInOrder ==
    /\ Len(comparison_data) = MonthsOverAreas(TheAreas)
    /\ \A i \in 1..Len(TheAreas) :
          LET n == Cardinality(SaleMonths(TheAreas[i]))
              row(k) == comparison_data[Offset(i) + k]
          IN /\ \A k \in 1..n :
                   /\ row(k).Area = TheAreas[i]
                   /\ to_period_M(row(k).instance_date) \in SaleMonths(TheAreas[i])
                   /\ row(k).instance_date = to_timestamp(to_period_M(row(k).instance_date))
                   /\ YieldIs(row(k).yield, TheAreas[i], to_period_M(row(k).instance_date))
             /\ \A k \in 1..n - 1 : row(k).instance_date < row(k + 1).instance_date

\* the areas of the list that have a matching sale
AreasWithSales == { TheAreas[i] : i \in { j \in 1..Len(TheAreas) : SaleMonths(TheAreas[j]) # {} } }

\* the pivot is a table of one row per month and one column per area with rows,
\* the cell the area's yield of the month, missing (NaN) without a sale
PivotIsTable ==
    LET t == comparison_chart_data
    IN /\ t.status = "ok"
       /\ \A i \in 1..Len(t.index) - 1 : t.index[i] < t.index[i + 1]
       /\ { to_period_M(t.index[i]) : i \in 1..Len(t.index) } =
             UNION { SaleMonths(a) : a \in AreasWithSales }
       /\ \A j \in 1..Len(t.columns) - 1 : StrLess(t.columns[j], t.columns[j + 1])
       /\ Elems(t.columns) = AreasWithSales
       /\ \A i \in 1..Len(t.index) : \A j \in 1..Len(t.columns) :
             IF to_period_M(t.index[i]) \in SaleMonths(t.columns[j])
             THEN YieldIs(t.cells[i][j], t.columns[j], to_period_M(t.index[i]))
             ELSE t.cells[i][j] = NaN

\* an area with a matching sale is more than once in the list
RepeatedAreaWithSales ==
    \E i, j \in 1..Len(TheAreas) :
        i < j /\ TheAreas[i] = TheAreas[j] /\ SaleMonths(TheAreas[i]) # {}

C1_YieldComputed ==
    (FiltersRan /\ filtered_sales_data # <<>> /\ filtered_rental_data # <<>>) =>
        /\ panel = "metrics"
        /\ metrics # <<>>
        /\ LET sale_sum == SumOver(MatchingSales(TheArea), TheSales, "actual_worth")
               sale_count == Cardinality(MatchingSales(TheArea))
               rent_sum == SumOver(MatchingRentals(TheArea), TheRentals, "annual_amount")
               rent_count == Cardinality(MatchingRentals(TheArea))
               y == metrics[1].gross_rental_yield
           IN /\ y.k = "num"
              /\ IF sale_sum > 0 /\ rent_sum > 0
                 THEN y.n * (rent_count * sale_sum) = 100 * rent_sum * sale_count * y.d
                 ELSE y.n = 0

\* C8: every row an area with matching sales contributes has the yield
\* avg_rent_price / monthly_avg_sale_price * 100, a number, avg_rent_price being
\* the mean over the area's matching rentals (0 without any); so without
\* matching rentals every such row has the yield 0.
C8_MonthlyYield ==
    ComparisonRan =>
        \A i \in 1..Len(comp_trace) : \A k \in 1..Len(comp_trace[i].rows) :
            LET row == comp_trace[i].rows[k]
                area == comp_trace[i].comparison_area
            IN /\ row.yield.k = "num"
               /\ YieldIs(row.yield, area, to_period_M(row.instance_date))
               /\ MatchingRentals(area) = {} => row.yield.n = 0

\* C9: a stored sale is returned by the filter for its own options: when the
\* area, property-type and room options chosen are those derived from the row and
\* its date is in the window, the row is in the filtered sales.
C9_OptionsMatchOwnRows ==
    FiltersRan =>
        \A i \in 1..Len(TheSales) :
            ( /\ TheSales[i].master_project_en = area_choice[1]
              /\ TheSales[i].property_sub_type_en = type_choice[1]
              /\ TheSales[i].rooms_en = rooms_choice[1]
              /\ TheSales[i].instance_date >= TheMinDate )
            => \E k \in 1..Len(filtered_sales_data) : filtered_sales_data[k] = TheSales[i]

\* C10: every yield in the long-form table is a defined, finite, non-negative
\* number, whatever the (non-negative) prices.
C10_YieldsFinite ==
    ComparisonRan =>
        \A k \in 1..Len(comparison_data) :
            /\ comparison_data[k].yield.k = "num"
            /\ comparison_data[k].yield.n >= 0
            /\ comparison_data[k].yield.d > 0

====
